---- MODULE Spec2Model ----
(***************************************************************************)
(* A model of SevenSegment.py: the seven-segment display data model        *)
(* (Segment, Digit, Display), ClearDisplay, and the ASCII renderer         *)
(* (MakeDigitASCII, MakeDigitsASCII, CombineDigitASCIIStrings).            *)
(*                                                                         *)
(* A Python str is modelled as a sequence of one-character strings, so     *)
(* that joining, splitting and widths are computed and not assumed.        *)
(***************************************************************************)
EXTENDS Integers, Sequences, FiniteSets, TLC

VARIABLES
    display,    \* Spec: the Display object the caller holds
    call,       \* the last call made (Spec), or the call to make / made (SpecRender)
    out,        \* the outcome of the last call: a returned str, None, or a raised KeyError
    pc          \* SpecRender: "ready" before the call, "done" after it; Spec: "run"

vars == <<display, call, out, pc>>

(***************************************************************************)
(* Bounds of the model.                                                    *)
(***************************************************************************)
MaxDigits == 2      \* digits in a Display / in a list handed to MakeDigitsASCII
MaxOn == 2          \* segments on, in total, over a list handed to MakeDigitsASCII
MaxLit == 2         \* segments on at the same time in the caller's Display
MaxGap == 2         \* largest gapSpaces tried (the smallest is -1)
MaxBlocks == 2      \* blocks in a list handed directly to CombineDigitASCIIStrings
MaxChars == 4       \* total characters over the blocks of such a list

(***************************************************************************)
(* Characters and strings.                                                 *)
(***************************************************************************)
NL == "\n"
CR == "\r"
SP == " "
STAR == "*"

\* str.splitlines() ends a line at each of these; "\r\n" counts as one boundary.
\* (Python knows further boundaries, such as \v, \f and \x1c, which behave as
\* CR does without the "\r\n" pairing.)
LineBreaks == {NL, CR}

\* The characters of the blocks handed directly to CombineDigitASCIIStrings.
BlockChars == {STAR, NL, CR}

\* sep.join(parts)
RECURSIVE Join(_, _)
Join(sep, parts) ==
    IF Len(parts) = 0 THEN <<>>
    ELSE IF Len(parts) = 1 THEN parts[1]
    ELSE parts[1] \o sep \o Join(sep, Tail(parts))

\* " " * n  (the empty str when n <= 0)
RECURSIVE Spaces(_)
Spaces(n) == IF n <= 0 THEN <<>> ELSE <<SP>> \o Spaces(n - 1)

\* The index of the first line boundary of s at or after i, Len(s) + 1 if none.
RECURSIVE FindBreak(_, _)
FindBreak(s, i) ==
    IF i > Len(s) THEN Len(s) + 1
    ELSE IF s[i] \in LineBreaks THEN i
    ELSE FindBreak(s, i + 1)

\* s[i:].splitlines()
RECURSIVE SplitFrom(_, _)
SplitFrom(s, i) ==
    IF i > Len(s) THEN <<>>
    ELSE LET eol == FindBreak(s, i)
             next == IF eol > Len(s) THEN eol
                     ELSE IF s[eol] = CR /\ eol < Len(s) /\ s[eol + 1] = NL THEN eol + 2
                     ELSE eol + 1
         IN  <<SubSeq(s, i, eol - 1)>> \o SplitFrom(s, next)

\* s.split("\n"): one row more than s has newline characters.
RECURSIVE SplitNL(_)
SplitNL(s) ==
    LET eol == CHOOSE i \in 1..(Len(s) + 1) :
                   /\ i = Len(s) + 1 \/ s[i] = NL
                   /\ \A j \in 1..(i - 1) : s[j] # NL
    IN  IF eol > Len(s) THEN <<s>>
        ELSE <<SubSeq(s, 1, eol - 1)>> \o SplitNL(SubSeq(s, eol + 1, Len(s)))

\* Faulty variant: rows taken with split("\n") instead of splitlines().
SplitWithSplitNLMut(s) == SplitNL(s)
\* s.splitlines()
splitlines(s) == SplitFrom(s, 1)

(***************************************************************************)
(* Data model.                                                             *)
(***************************************************************************)
SegmentName == {"Top", "TopRight", "BottomRight", "Bottom", "BottomLeft", "TopLeft", "Middle"}

Segment(isOn) == [isOn |-> isOn]

Colors == {"white", "red"}

\* Digit(color): the default segment map, every segment off.
Digit(color) == [color |-> color, segments |-> [name \in SegmentName |-> Segment(FALSE)]]

\* Digit(color, segments={}): a digit with an empty segment map.
EmptyDigit(color) == [color |-> color, segments |-> <<>>]

\* A digit with the seven keys whose on segments are exactly those of `on`.
DigitWith(color, on) ==
    [color |-> color, segments |-> [name \in SegmentName |-> Segment(name \in on)]]

WellFormed(digit) == DOMAIN digit.segments = SegmentName

(***************************************************************************)
(* ASCII renderer.                                                         *)
(***************************************************************************)
\* Faulty variant: the padding space on each side is forgotten.
DrawHorizontalNoPadMut(isOn) ==
    IF isOn THEN <<STAR, STAR, STAR, STAR, STAR>> ELSE <<SP, SP, SP, SP, SP>>
_DrawHorizontalSegment(isOn) ==
    <<SP>> \o (IF isOn THEN <<STAR, STAR, STAR, STAR, STAR>> ELSE <<SP, SP, SP, SP, SP>>) \o <<SP>>

\* Faulty variant: the left and right edges are swapped.
DrawVerticalSwappedMut(is_left_on, is_right_on) ==
    <<IF is_right_on THEN STAR ELSE SP>> \o <<SP, SP, SP, SP, SP>>
        \o <<IF is_left_on THEN STAR ELSE SP>>
_DrawVerticalSegment(is_left_on, is_right_on) ==
    LET left_edge == IF is_left_on THEN STAR ELSE SP
        right_edge == IF is_right_on THEN STAR ELSE SP
    IN  <<left_edge>> \o <<SP, SP, SP, SP, SP>> \o <<right_edge>>

\* Faulty variant: every row is ended by a newline instead of rows being joined.
MakeDigitASCIITrailingNewlineMut(digit) ==
    LET h(name) == _DrawHorizontalSegment(digit.segments[name].isOn)
        v(l, r) == _DrawVerticalSegment(digit.segments[l].isOn, digit.segments[r].isOn)
    IN  h("Top") \o <<NL>> \o v("TopLeft", "TopRight") \o <<NL>>
            \o v("TopLeft", "TopRight") \o <<NL>> \o h("Middle") \o <<NL>>
            \o v("BottomLeft", "BottomRight") \o <<NL>>
            \o v("BottomLeft", "BottomRight") \o <<NL>> \o h("Bottom") \o <<NL>>
\* Defined for a digit with the seven keys; the lookup of a missing key raises
\* KeyError, which the calling actions record.
MakeDigitASCII(digit) ==
    LET segments == digit.segments
        ascii_rows == <<
            _DrawHorizontalSegment(segments["Top"].isOn),
            _DrawVerticalSegment(segments["TopLeft"].isOn, segments["TopRight"].isOn),
            _DrawVerticalSegment(segments["TopLeft"].isOn, segments["TopRight"].isOn),
            _DrawHorizontalSegment(segments["Middle"].isOn),
            _DrawVerticalSegment(segments["BottomLeft"].isOn, segments["BottomRight"].isOn),
            _DrawVerticalSegment(segments["BottomLeft"].isOn, segments["BottomRight"].isOn),
            _DrawHorizontalSegment(segments["Bottom"].isOn) >>
    IN  Join(<<NL>>, ascii_rows)

\* "Erorr--not every line is same length wtf?"
RowMismatchText ==
    << "E", "r", "o", "r", "r", "-", "-", "n", "o", "t", " ", "e", "v", "e", "r", "y", " ",
       "l", "i", "n", "e", " ", "i", "s", " ", "s", "a", "m", "e", " ",
       "l", "e", "n", "g", "t", "h", " ", "w", "t", "f", "?" >>

\* Faulty variant: no validation, the rows are cut to the shortest block.
CombineNoValidationMut(digit_ascii_list, gapSpaces) ==
    LET digit_rows_list == [k \in DOMAIN digit_ascii_list |-> splitlines(digit_ascii_list[k])]
        shortest == CHOOSE n \in {Len(digit_rows_list[k]) : k \in DOMAIN digit_rows_list} :
                        \A k \in DOMAIN digit_rows_list : n <= Len(digit_rows_list[k])
    IN  IF Len(digit_ascii_list) = 0 THEN <<>>
        ELSE Join(<<NL>>, [row_index \in 1..shortest |->
                 Join(Spaces(gapSpaces),
                      [k \in DOMAIN digit_rows_list |-> digit_rows_list[k][row_index]])])
\* Faulty variant: the rows are joined without the gap.
CombineNoGapMut(digit_ascii_list, gapSpaces) ==
    LET digit_rows_list == [k \in DOMAIN digit_ascii_list |-> splitlines(digit_ascii_list[k])]
    IN  IF Len(digit_ascii_list) = 0 THEN <<>>
        ELSE LET expected_rows == Len(digit_rows_list[1])
             IN  IF \E k \in DOMAIN digit_rows_list : Len(digit_rows_list[k]) # expected_rows
                 THEN RowMismatchText
                 ELSE Join(<<NL>>, [row_index \in 1..expected_rows |->
                          Join(<<>>,
                               [k \in DOMAIN digit_rows_list |-> digit_rows_list[k][row_index]])])
\* Faulty variant: the empty list is not returned early and ends as a mismatch.
CombineEmptyIsErrorMut(digit_ascii_list, gapSpaces) ==
    LET digit_rows_list == [k \in DOMAIN digit_ascii_list |-> splitlines(digit_ascii_list[k])]
        expected_rows == IF Len(digit_rows_list) = 0 THEN 0 - 1 ELSE Len(digit_rows_list[1])
    IN  IF expected_rows < 0
           \/ \E k \in DOMAIN digit_rows_list : Len(digit_rows_list[k]) # expected_rows
        THEN RowMismatchText
        ELSE Join(<<NL>>, [row_index \in 1..expected_rows |->
                 Join(Spaces(gapSpaces),
                      [k \in DOMAIN digit_rows_list |-> digit_rows_list[k][row_index]])])
CombineDigitASCIIStrings(digit_ascii_list, gapSpaces) ==
    IF Len(digit_ascii_list) = 0 THEN <<>>
    ELSE LET gap_text == Spaces(gapSpaces)
             digit_rows_list ==
                 [k \in DOMAIN digit_ascii_list |-> splitlines(digit_ascii_list[k])]
             expected_rows == Len(digit_rows_list[1])
         IN  IF \E k \in DOMAIN digit_rows_list : Len(digit_rows_list[k]) # expected_rows
             THEN RowMismatchText
             ELSE LET combined_rows ==
                          [row_index \in 1..expected_rows |->
                              Join(gap_text, [k \in DOMAIN digit_rows_list |->
                                                  digit_rows_list[k][row_index]])]
                  IN  Join(<<NL>>, combined_rows)

MakeDigitsASCII(digits, gapSpaces) ==
    LET digit_ascii_list == [k \in DOMAIN digits |-> MakeDigitASCII(digits[k])]
    IN  CombineDigitASCIIStrings(digit_ascii_list, gapSpaces)

(***************************************************************************)
(* Display model.                                                          *)
(***************************************************************************)
\* Faulty variant: only the first digit is cleared.
ClearFirstDigitOnlyMut(d) ==
    [digits |-> [i \in DOMAIN d.digits |->
        IF i = 1
        THEN [d.digits[i] EXCEPT !.segments =
                 [name \in DOMAIN d.digits[i].segments |-> Segment(FALSE)]]
        ELSE d.digits[i]]]
\* Faulty variant: every segment is toggled instead of turned off.
ClearToggleMut(d) ==
    [digits |-> [i \in DOMAIN d.digits |->
        [d.digits[i] EXCEPT !.segments =
            [name \in DOMAIN d.digits[i].segments |->
                Segment(~d.digits[i].segments[name].isOn)]]]]
ClearDisplay(d) ==
    [digits |-> [i \in DOMAIN d.digits |->
        [d.digits[i] EXCEPT !.segments =
            [name \in DOMAIN d.digits[i].segments |->
                [d.digits[i].segments[name] EXCEPT !.isOn = FALSE]]]]]

(***************************************************************************)
(* Outcomes of a call and the calls themselves.                            *)
(***************************************************************************)
Str(s) == [kind |-> "str", value |-> s]
None == [kind |-> "None", value |-> <<>>]
KeyError == [kind |-> "KeyError", value |-> <<>>]

Gaps == (0 - 1)..MaxGap
DefaultGap == 2

\* A call: its name and arguments (for ClearDisplay, the digits as they were when it
\* was called), and nth: 2 when it is a ClearDisplay that directly follows another
\* ClearDisplay, else 1.
Call(op, digits, gapSpaces, blocks) ==
    [op |-> op, digits |-> digits, gapSpaces |-> gapSpaces, blocks |-> blocks, nth |-> 1]

RenderOps == {"MakeDigitASCII", "MakeDigitsASCII", "CombineDigitASCIIStrings"}

\* What a rendering call returns or raises.
Outcome(c) ==
    CASE c.op = "MakeDigitASCII" ->
            IF WellFormed(c.digits[1]) THEN Str(MakeDigitASCII(c.digits[1])) ELSE KeyError
      [] c.op = "MakeDigitsASCII" ->
            IF \A k \in DOMAIN c.digits : WellFormed(c.digits[k])
            THEN Str(MakeDigitsASCII(c.digits, c.gapSpaces))
            ELSE KeyError
      [] c.op = "CombineDigitASCIIStrings" ->
            Str(CombineDigitASCIIStrings(c.blocks, c.gapSpaces))

(***************************************************************************)
(* Spec: a caller that builds a Display, writes segments directly, clears  *)
(* the display and renders, in any order.                                  *)
(***************************************************************************)
OnCount(digits) ==
    Cardinality({<<i, name>> \in (DOMAIN digits) \X SegmentName :
                    name \in DOMAIN digits[i].segments /\ digits[i].segments[name].isOn})

\* Blocks a caller hands directly to CombineDigitASCIIStrings.
SampleBlockLists ==
    LET blank == MakeDigitASCII(Digit("white"))
        seven == MakeDigitASCII(DigitWith("white", {"Top", "TopRight", "BottomRight"}))
    IN  { <<>>, <<blank, seven>>, <<seven, <<STAR, NL, STAR, NL, STAR>> >> }

Init ==
    /\ display = [digits |-> <<>>]
    /\ call = Call("Display", <<>>, DefaultGap, <<>>)
    /\ out = None
    /\ pc = "run"

\* display.digits.append(Digit()) or display.digits.append(Digit("red", {}))
AddDigit ==
    /\ pc = "run"
    /\ Len(display.digits) < MaxDigits
    /\ \E digit \in {Digit("white"), EmptyDigit("red")} :
           display' = [display EXCEPT !.digits = Append(@, digit)]
    /\ call' = Call("append", <<>>, DefaultGap, <<>>)
    /\ out' = None
    /\ pc' = pc

\* display.digits[i].segments[name].isOn = isOn
WriteSegment ==
    /\ pc = "run"
    /\ \E i \in DOMAIN display.digits, name \in SegmentName, isOn \in BOOLEAN :
           /\ name \in DOMAIN display.digits[i].segments
           /\ isOn => OnCount(display.digits) < MaxLit
           /\ display' = [display EXCEPT !.digits[i].segments[name].isOn = isOn]
    /\ call' = Call("write", <<>>, DefaultGap, <<>>)
    /\ out' = None
    /\ pc' = pc

ClearDisplayStep ==
    /\ pc = "run"
    /\ display' = ClearDisplay(display)
    /\ call' = [Call("ClearDisplay", display.digits, DefaultGap, <<>>)
                   EXCEPT !.nth = IF call.op = "ClearDisplay" THEN 2 ELSE 1]
    /\ out' = None
    /\ pc' = pc

MakeDigitASCIIStep ==
    /\ pc = "run"
    /\ \E i \in DOMAIN display.digits :
           call' = Call("MakeDigitASCII", <<display.digits[i]>>, DefaultGap, <<>>)
    /\ out' = Outcome(call')
    /\ UNCHANGED <<display, pc>>

\* Faulty variant: rendering turns the segments it has read off.
MakeDigitsASCIIClearsMut ==
    /\ pc = "run"
    /\ \E gapSpaces \in Gaps :
           call' = Call("MakeDigitsASCII", display.digits, gapSpaces, <<>>)
    /\ out' = Outcome(call')
    /\ display' = ClearDisplay(display)
    /\ pc' = pc
MakeDigitsASCIIStep ==
    /\ pc = "run"
    /\ \E gapSpaces \in Gaps :
           call' = Call("MakeDigitsASCII", display.digits, gapSpaces, <<>>)
    /\ out' = Outcome(call')
    /\ UNCHANGED <<display, pc>>

CombineDigitASCIIStringsStep ==
    /\ pc = "run"
    /\ \E blocks \in SampleBlockLists :
           call' = Call("CombineDigitASCIIStrings", <<>>, DefaultGap, blocks)
    /\ out' = Outcome(call')
    /\ UNCHANGED <<display, pc>>

Next ==
    \/ AddDigit
    \/ WriteSegment
    \/ ClearDisplayStep
    \/ MakeDigitASCIIStep
    \/ MakeDigitsASCIIStep
    \/ CombineDigitASCIIStringsStep

Spec == Init /\ [][Next]_vars

(***************************************************************************)
(* SpecRender: one rendering call on arguments drawn from bounded sets.    *)
(***************************************************************************)
AllDigits == {DigitWith(color, on) : color \in Colors, on \in SUBSET SegmentName}

\* Lists of exactly k digits with at most n segments on in total.
RECURSIVE DigitLists(_, _)
DigitLists(k, n) ==
    IF k = 0 THEN {<<>>}
    ELSE UNION { { <<DigitWith("white", on)>> \o rest :
                       rest \in DigitLists(k - 1, n - Cardinality(on)) } :
                 on \in {s \in SUBSET SegmentName : Cardinality(s) <= n} }

Strings(n) == UNION {[1..m -> BlockChars] : m \in 0..n}

\* Lists of exactly k blocks with at most n characters in total.
RECURSIVE BlockLists(_, _)
BlockLists(k, n) ==
    IF k = 0 THEN {<<>>}
    ELSE UNION { { <<b>> \o rest : rest \in BlockLists(k - 1, n - Len(b)) } :
                 b \in Strings(n) }

RenderCalls ==
    {Call("MakeDigitASCII", <<d>>, DefaultGap, <<>>) : d \in AllDigits}
    \cup {Call("MakeDigitsASCII", ds, g, <<>>) :
              ds \in UNION {DigitLists(k, MaxOn) : k \in 0..MaxDigits}, g \in Gaps}
    \cup {Call("CombineDigitASCIIStrings", <<>>, g, bs) :
              bs \in UNION {BlockLists(k, MaxChars) : k \in 0..MaxBlocks}, g \in Gaps}

InitRender ==
    /\ display = [digits |-> <<>>]
    /\ call \in RenderCalls
    /\ out = None
    /\ pc = "ready"

CallMakeDigitASCII ==
    /\ pc = "ready"
    /\ call.op = "MakeDigitASCII"
    /\ out' = Outcome(call)
    /\ pc' = "done"
    /\ UNCHANGED <<display, call>>

CallMakeDigitsASCII ==
    /\ pc = "ready"
    /\ call.op = "MakeDigitsASCII"
    /\ out' = Outcome(call)
    /\ pc' = "done"
    /\ UNCHANGED <<display, call>>

CallCombineDigitASCIIStrings ==
    /\ pc = "ready"
    /\ call.op = "CombineDigitASCIIStrings"
    /\ out' = Outcome(call)
    /\ pc' = "done"
    /\ UNCHANGED <<display, call>>

NextRender ==
    \/ CallMakeDigitASCII
    \/ CallMakeDigitsASCII
    \/ CallCombineDigitASCIIStrings

SpecRender == InitRender /\ [][NextRender]_vars

(***************************************************************************)
(* Vocabulary of the properties, stated without the renderer's code.       *)
(***************************************************************************)
GlyphChars == {STAR, SP, NL}

Chars(s) == {s[i] : i \in DOMAIN s}

EndsWithNL(s) == Len(s) > 0 /\ s[Len(s)] = NL

\* n space characters, none when n < 1.
Blanks(n) == [j \in 1..n |-> SP]

\* The rows of a block as str.splitlines() defines them: "\r\n" and "\r" end a
\* line as "\n" does, and a last line that is empty is not a row (so the empty
\* block has no rows and a trailing line boundary adds none).
RECURSIVE Normalized(_)
Normalized(s) ==
    IF Len(s) = 0 THEN <<>>
    ELSE IF Len(s) >= 2 /\ s[1] = CR /\ s[2] = NL THEN <<NL>> \o Normalized(SubSeq(s, 3, Len(s)))
    ELSE IF s[1] = CR THEN <<NL>> \o Normalized(Tail(s))
    ELSE <<s[1]>> \o Normalized(Tail(s))

PyRows(s) ==
    LET rows == SplitNL(Normalized(s))
    IN  IF Len(rows[Len(rows)]) = 0 THEN SubSeq(rows, 1, Len(rows) - 1) ELSE rows

\* The rows of a block when it is split at its newline characters only.
NewlineRows(s) == SplitNL(s)

\* Row i of every block of rowsOf, in list order, with gap spaces between neighbours.
RECURSIVE SideBySide(_, _, _)
SideBySide(rowsOf, i, gap) ==
    IF Len(rowsOf) = 1 THEN rowsOf[1][i]
    ELSE rowsOf[1][i] \o Blanks(gap) \o SideBySide(Tail(rowsOf), i, gap)

HorizontalRow(on) ==
    IF on THEN <<" ", "*", "*", "*", "*", "*", " ">> ELSE <<" ", " ", " ", " ", " ", " ", " ">>

VerticalPairRow(left, right) ==
    <<IF left THEN "*" ELSE " ", " ", " ", " ", " ", " ", IF right THEN "*" ELSE " ">>

AllOff(digits) ==
    \A i \in DOMAIN digits : \A name \in DOMAIN digits[i].segments :
        digits[i].segments[name].isOn = FALSE

(***************************************************************************)
(* C1: for every Digit with the seven segment keys, in any of the 2^7      *)
(* on/off combinations and of any color, the text MakeDigitASCII returns,  *)
(* split at its newlines, has exactly 7 rows, each exactly 7 characters    *)
(* wide.                                                                   *)
(***************************************************************************)
C1_GlyphIsSevenBySeven ==
    (pc = "done" /\ call.op = "MakeDigitASCII") =>
        /\ out.kind = "str"
        /\ LET rows == NewlineRows(out.value)
           IN  /\ Len(rows) = 7
               /\ \A i \in 1..Len(rows) : Len(rows[i]) = 7

C1_Witness ==
    /\ pc = "done"
    /\ call.op = "MakeDigitASCII"
    /\ call.digits[1] = DigitWith("red", SegmentName)
    /\ Len(NewlineRows(out.value)) = 7
    /\ Len(out.value) = 55

(***************************************************************************)
(* C2: the glyph's rows are, top to bottom: the horizontal row of Top, the *)
(* vertical pair row of (TopLeft, TopRight) twice, the horizontal row of   *)
(* Middle, the vertical pair row of (BottomLeft, BottomRight) twice, the   *)
(* horizontal row of Bottom.                                               *)
(***************************************************************************)
C2_GlyphRows ==
    (pc = "done" /\ call.op = "MakeDigitASCII") =>
        LET seg == call.digits[1].segments
        IN  /\ out.kind = "str"
            /\ NewlineRows(out.value) =
                   << HorizontalRow(seg["Top"].isOn),
                      VerticalPairRow(seg["TopLeft"].isOn, seg["TopRight"].isOn),
                      VerticalPairRow(seg["TopLeft"].isOn, seg["TopRight"].isOn),
                      HorizontalRow(seg["Middle"].isOn),
                      VerticalPairRow(seg["BottomLeft"].isOn, seg["BottomRight"].isOn),
                      VerticalPairRow(seg["BottomLeft"].isOn, seg["BottomRight"].isOn),
                      HorizontalRow(seg["Bottom"].isOn) >>

\* Only Top and Bottom on: " ***** " for rows 1 and 7, seven spaces for rows 2 to 6.
C2_Witness ==
    /\ pc = "done"
    /\ call.op = "MakeDigitASCII"
    /\ call.digits[1] = DigitWith("white", {"Top", "Bottom"})
    /\ out.value =
           <<" ", "*", "*", "*", "*", "*", " ", "\n",
             " ", " ", " ", " ", " ", " ", " ", "\n",
             " ", " ", " ", " ", " ", " ", " ", "\n",
             " ", " ", " ", " ", " ", " ", " ", "\n",
             " ", " ", " ", " ", " ", " ", " ", "\n",
             " ", " ", " ", " ", " ", " ", " ", "\n",
             " ", "*", "*", "*", "*", "*", " ">>

(***************************************************************************)
(* C3: for a non-empty list of well-formed Digits and gapSpaces >= 0,      *)
(* MakeDigitsASCII returns exactly 7 newline-separated rows, row i being   *)
(* row i of each digit's glyph, in list order, with exactly gapSpaces      *)
(* spaces between neighbours.                                              *)
(***************************************************************************)
C3_DigitsSideBySide ==
    (pc = "done" /\ call.op = "MakeDigitsASCII" /\ Len(call.digits) >= 1
        /\ call.gapSpaces >= 0) =>
        LET glyphRows == [k \in DOMAIN call.digits |->
                             NewlineRows(MakeDigitASCII(call.digits[k]))]
            rows == NewlineRows(out.value)
        IN  /\ out.kind = "str"
            /\ Len(rows) = 7
            /\ \A i \in 1..7 : rows[i] = SideBySide(glyphRows, i, call.gapSpaces)

\* Two different digits and the default gap: row 1 is row 1 of the first, two
\* spaces, row 1 of the second.
C3_Witness ==
    /\ pc = "done"
    /\ call.op = "MakeDigitsASCII"
    /\ call.gapSpaces = DefaultGap
    /\ call.digits = <<DigitWith("white", {"Top"}), DigitWith("white", {"TopLeft"})>>
    /\ NewlineRows(out.value)[1] = HorizontalRow(TRUE) \o <<" ", " ">> \o HorizontalRow(FALSE)
    /\ NewlineRows(out.value)[2] =
           VerticalPairRow(FALSE, FALSE) \o <<" ", " ">> \o VerticalPairRow(TRUE, FALSE)

(***************************************************************************)
(* C4: after ClearDisplay returns, every Segment of every Digit of the     *)
(* display is off, whatever was on before and for any number of digits,    *)
(* an empty digit list or a digit with an empty segment map included, and  *)
(* no error is raised.                                                     *)
(***************************************************************************)
C4_ClearTurnsAllOff ==
    (pc = "run" /\ call.op = "ClearDisplay") =>
        /\ AllOff(display.digits)
        /\ out = None

\* A display of a lit digit and a digit with an empty segment map was cleared.
C4_Witness ==
    /\ pc = "run"
    /\ call.op = "ClearDisplay"
    /\ Len(call.digits) = 2
    /\ OnCount(call.digits) = 2
    /\ \E i \in DOMAIN call.digits : DOMAIN call.digits[i].segments = {}
    /\ AllOff(display.digits)

(***************************************************************************)
(* C5: for a non-empty list of blocks of which one has a number of rows    *)
(* different from the first block's, and for every gapSpaces,              *)
(* CombineDigitASCIIStrings returns the sentinel error string as a normal  *)
(* return value, not a combined block.  (Rows are counted as the function  *)
(* counts them, with str.splitlines.)                                      *)
(***************************************************************************)
C5_MismatchReturnsSentinel ==
    (pc = "done" /\ call.op = "CombineDigitASCIIStrings" /\ Len(call.blocks) >= 1
        /\ \E k \in DOMAIN call.blocks :
               Len(PyRows(call.blocks[k])) # Len(PyRows(call.blocks[1]))) =>
        out = Str(RowMismatchText)

C5_Witness ==
    /\ pc = "done"
    /\ call.op = "CombineDigitASCIIStrings"
    /\ call.blocks = << <<STAR, NL, STAR>>, <<STAR>> >>
    /\ call.gapSpaces = 0 - 1
    /\ out = Str(RowMismatchText)

(***************************************************************************)
(* C6, as claimed: every string the three rendering operations return     *)
(* contains only '*', space and newline and does not end with a newline,   *)
(* and MakeDigitsASCII never returns the sentinel.                         *)
(***************************************************************************)
C6_Original ==
    (pc = "done" /\ out.kind = "str") =>
        /\ Chars(out.value) \subseteq GlyphChars
        /\ ~EndsWithNL(out.value)
        /\ call.op = "MakeDigitsASCII" => out.value # RowMismatchText

(***************************************************************************)
(* C6, amended: every string MakeDigitASCII and MakeDigitsASCII return for *)
(* well-formed Digits contains only '*', space and newline, does not end   *)
(* with a newline and is not the sentinel.  CombineDigitASCIIStrings,      *)
(* called on blocks that hold only '*', space and line boundaries, returns *)
(* only '*', space and newline when the blocks' row counts agree, and then *)
(* ends with a newline only if the last row of every block is empty; when  *)
(* the row counts differ it returns the sentinel.                          *)
(***************************************************************************)
C6_OutputAlphabet ==
    (pc = "done" /\ out.kind = "str") =>
        /\ call.op \in {"MakeDigitASCII", "MakeDigitsASCII"} =>
               /\ Chars(out.value) \subseteq GlyphChars
               /\ ~EndsWithNL(out.value)
               /\ out.value # RowMismatchText
        /\ call.op = "CombineDigitASCIIStrings" =>
               LET rowsOf == [k \in DOMAIN call.blocks |-> PyRows(call.blocks[k])]
               IN  IF \A k \in DOMAIN rowsOf : Len(rowsOf[k]) = Len(rowsOf[1])
                   THEN /\ Chars(out.value) \subseteq GlyphChars
                        /\ EndsWithNL(out.value) =>
                               \A k \in DOMAIN rowsOf : rowsOf[k][Len(rowsOf[k])] = <<>>
                   ELSE out.value = RowMismatchText

C6_Witness ==
    /\ pc = "done"
    /\ call.op = "MakeDigitsASCII"
    /\ Len(call.digits) = 2
    /\ call.gapSpaces = DefaultGap
    /\ Chars(out.value) = GlyphChars
    /\ ~EndsWithNL(out.value)

(***************************************************************************)
(* C7: MakeDigitsASCII on an empty digit list and CombineDigitASCIIStrings *)
(* on an empty block list return the empty string, whatever gapSpaces is.  *)
(***************************************************************************)
C7_EmptyListGivesEmptyString ==
    (pc = "done"
        /\ \/ call.op = "MakeDigitsASCII" /\ call.digits = <<>>
           \/ call.op = "CombineDigitASCIIStrings" /\ call.blocks = <<>>) =>
        out = Str(<<>>)

C7_Witness ==
    /\ pc = "done"
    /\ call.op = "MakeDigitsASCII"
    /\ call.digits = <<>>
    /\ call.gapSpaces = DefaultGap
    /\ out = Str(<<>>)

(***************************************************************************)
(* C8: ClearDisplay is idempotent: a ClearDisplay that directly follows a  *)
(* ClearDisplay leaves the whole Display (every isOn, every color, the     *)
(* number and order of digits) as the first call left it, all off.         *)
(***************************************************************************)
C8_ClearIdempotent ==
    [][(call.op = "ClearDisplay" /\ call'.op = "ClearDisplay") =>
           /\ display' = display
           /\ AllOff(display'.digits)]_vars

\* A second ClearDisplay in a row has run, on a display of two digits of
\* different colors that the first call had turned off.
C8_Witness ==
    /\ pc = "run"
    /\ call.op = "ClearDisplay"
    /\ call.nth = 2
    /\ Len(display.digits) = 2
    /\ display.digits[1].color # display.digits[2].color
    /\ display.digits = call.digits

(***************************************************************************)
(* C9, as claimed: the rows of a block are its pieces between newline      *)
(* characters (k newlines give k + 1 rows, the empty block has one empty   *)
(* row, a trailing newline a final empty row), and for a non-empty list of *)
(* blocks that all have r such rows the result has exactly r               *)
(* newline-separated rows, row i being row i of every block joined by      *)
(* gapSpaces spaces.                                                       *)
(***************************************************************************)
C9_Original ==
    (pc = "done" /\ call.op = "CombineDigitASCIIStrings" /\ Len(call.blocks) >= 1) =>
        LET rowsOf == [k \in DOMAIN call.blocks |-> NewlineRows(call.blocks[k])]
            r == Len(rowsOf[1])
            rows == NewlineRows(out.value)
        IN  (\A k \in DOMAIN rowsOf : Len(rowsOf[k]) = r) =>
                /\ Len(rows) = r
                /\ \A i \in 1..r : rows[i] = SideBySide(rowsOf, i, call.gapSpaces)

(***************************************************************************)
(* C9, amended: the rows of a block are those of str.splitlines(): a line  *)
(* ends at "\n", "\r" or "\r\n", the empty block has no rows and a         *)
(* trailing line boundary adds no final empty row.  For a non-empty list   *)
(* of blocks that all have r such rows, the result is the empty string     *)
(* when r = 0 and else has exactly r newline-separated rows, row i being   *)
(* row i of every block joined in list order by gapSpaces spaces (none     *)
(* when gapSpaces < 1), ragged rows joined as they are.                    *)
(***************************************************************************)
C9_CombineRows ==
    (pc = "done" /\ call.op = "CombineDigitASCIIStrings" /\ Len(call.blocks) >= 1) =>
        LET rowsOf == [k \in DOMAIN call.blocks |-> PyRows(call.blocks[k])]
            r == Len(rowsOf[1])
            rows == NewlineRows(out.value)
        IN  (\A k \in DOMAIN rowsOf : Len(rowsOf[k]) = r) =>
                IF r = 0 THEN out = Str(<<>>)
                ELSE /\ out.kind = "str"
                     /\ Len(rows) = r
                     /\ \A i \in 1..r : rows[i] = SideBySide(rowsOf, i, call.gapSpaces)

\* A block with a trailing newline beside a narrower block: one ragged row each.
C9_Witness ==
    /\ pc = "done"
    /\ call.op = "CombineDigitASCIIStrings"
    /\ call.blocks = << <<STAR, STAR, NL>>, <<STAR>> >>
    /\ call.gapSpaces = 1
    /\ out = Str(<<STAR, STAR, SP, STAR>>)

(***************************************************************************)
(* C10: the rendering operations leave the whole Display unchanged (every  *)
(* isOn, every color and segment map, the number and order of digits), so  *)
(* that rendering the same arguments again, with no write or clear in      *)
(* between, returns the same text.                                         *)
(***************************************************************************)
C10_RenderingChangesNothing ==
    [][/\ call'.op \in RenderOps => display' = display
       /\ (call.op \in RenderOps /\ call' = call) => out' = out]_vars

\* MakeDigitsASCII has rendered a display of two digits with lit segments.
C10_Witness ==
    /\ pc = "run"
    /\ call.op = "MakeDigitsASCII"
    /\ call.digits = display.digits
    /\ Len(display.digits) = 2
    /\ OnCount(display.digits) = 2
    /\ out.kind = "str"
    /\ STAR \in Chars(out.value)

====
